---------------------------- MODULE Spec2Model ----------------------------
(***************************************************************************)
(* Polled SPI driver of src/src/spi.rs: the byte-level send/receive state  *)
(* machine of SpiBus, the composite primitives read / write / transfer /   *)
(* transfer_in_place / flush, SpiDevice::transaction with its chip-select  *)
(* lifecycle, the construction of the bus (SpiBus::new) with its baud-rate *)
(* table, the three configuration operations and Error::kind.              *)
(*                                                                         *)
(* The peripheral is the environment: every read of the status register    *)
(* and every read of the data register returns a value the driver does not *)
(* control.  One step of the model is one access of the driver to the      *)
(* outside world (a status poll with the data-register access it leads to, *)
(* a chip-select call, a delay call) together with the control flow that   *)
(* follows it up to the next such access.                                  *)
(***************************************************************************)
EXTENDS Integers, Sequences, FiniteSets, TLC

\* ------------------------------------------------------------------ bounds
\* longest buffer handed to a bus primitive called directly on the SpiBus
MaxLen == 2
\* longest operation list handed to SpiDevice::transaction
MaxOps == 2
\* a new call is started only while fewer than this many bytes were written
\* to the data register without their answer having been read
MaxInflight == 2

\* u8 values the model distinguishes: the filler 0x00 and one other value
Byte == {0, 1}
\* durations of Operation::DelayNs
Durations == {100, 200}

\* ------------------------------------------------------------- data model
\* the five flags of SPI_SR the driver looks at
Flags == [ovr : BOOLEAN, modf : BOOLEAN, crcerr : BOOLEAN,
          txe : BOOLEAN, rxne : BOOLEAN]

\* SPI_SR after reset (only TXE is set): what sr shows before the first poll
\* of a call
SrReset == [ovr |-> FALSE, modf |-> FALSE, crcerr |-> FALSE,
            txe |-> TRUE, rxne |-> FALSE]

NoFault(s) == ~s.ovr /\ ~s.modf /\ ~s.crcerr

\* enum Error
Error == {"Overrun", "ModeFault", "Crc", "ChipSelectFault"}
BusError == {"Overrun", "ModeFault", "Crc"}

BufsUpTo(n) == UNION {[1..m -> Byte] : m \in 0..n}

\* hal::spi::Operation.  rd is the buffer the primitive may store into
\* (the &mut slice), wr the buffer it only reads, ns the delay.
Op(kind, rd, wr, ns) == [kind |-> kind, rd |-> rd, wr |-> wr, ns |-> ns]

ReadOps(n) == {Op("Read", r, <<>>, 0) : r \in BufsUpTo(n)}
WriteOps(n) == {Op("Write", <<>>, w, 0) : w \in BufsUpTo(n)}
TransferOps(n) == {Op("Transfer", r, w, 0) : r \in BufsUpTo(n), w \in BufsUpTo(n)}
TransferInPlaceOps(n) == {Op("TransferInPlace", r, <<>>, 0) : r \in BufsUpTo(n)}
DelayOps == {Op("DelayNs", <<>>, <<>>, d) : d \in Durations}

\* The operations of a transaction list.  Their buffers are empty or hold
\* one non-filler byte: what a primitive does with the length and the
\* contents of a buffer is explored by the direct calls, a transaction adds
\* the order of the operations.
TxnBufs == {<<>>, <<1>>}

Operation ==
    {Op("Read", r, <<>>, 0) : r \in TxnBufs}
        \cup {Op("Write", <<>>, w, 0) : w \in TxnBufs}
        \cup {Op("Transfer", r, w, 0) : r \in TxnBufs, w \in TxnBufs}
        \cup {Op("TransferInPlace", r, <<>>, 0) : r \in TxnBufs}
        \cup DelayOps

OpLists == UNION {[1..m -> Operation] : m \in 0..MaxOps}

\* events the outside world sees, in order, during one call
Ev(e, v) == [e |-> e, v |-> v]

\* ----------------------------------------------------------- configuration
\* largest apb_clk and largest speed handed to SpiBus::new (both in Hz)
MaxClock == 200
MaxSpeed == 6

\* hal::spi::Mode { polarity, phase }
Polarity == {"IdleLow", "IdleHigh"}
Phase == {"CaptureOnFirstTransition", "CaptureOnSecondTransition"}
Mode == [polarity : Polarity, phase : Phase]
MODE_0 == [polarity |-> "IdleLow", phase |-> "CaptureOnFirstTransition"]

\* the arguments of SpiBus::new the model distinguishes
Args == [clock : 1..MaxClock, speed : 1..MaxSpeed, mode : Mode]

\* SPI_CR1 and SPI_CR2 after SPI::reset: every field of CR1 is zero, the
\* frame-size field of CR2 resets to 0b0111
Cr1Reset == [cpha |-> FALSE, cpol |-> FALSE, mstr |-> FALSE, br |-> 0,
             lsbfirst |-> FALSE, ssm |-> FALSE, ssi |-> FALSE,
             rxonly |-> FALSE, crcl |-> FALSE, bidimode |-> FALSE,
             bidioe |-> FALSE, spe |-> FALSE]
Cr2Reset == [ssoe |-> FALSE, frxth |-> FALSE, ds |-> 7]

\* register contents left behind by an earlier user of the peripheral
Cr1Used == [Cr1Reset EXCEPT !.lsbfirst = TRUE, !.bidioe = TRUE, !.spe = TRUE]
Cr2Used == [Cr2Reset EXCEPT !.ssoe = TRUE, !.ds = 15]

\* the match with every band starting one power of two late: 3 still maps
\* to 0b000, 6 and 7 to 0b001, ...
br_bands_late(clock, speed) ==
    LET ratio == clock \div speed
    IN  CASE ratio = 0 -> -1
          [] ratio \in 1..3 -> 0
          [] ratio \in 4..7 -> 1
          [] ratio \in 8..15 -> 2
          [] ratio \in 16..31 -> 3
          [] ratio \in 32..63 -> 4
          [] ratio \in 64..127 -> 5
          [] ratio \in 128..255 -> 6
          [] OTHER -> 7

\* the match on the bands shifted by one: 2 maps to 0b001, 5 to 0b010, ...
br_bands_shifted(clock, speed) ==
    LET ratio == clock \div speed
    IN  CASE ratio = 0 -> -1
          [] ratio \in 1..1 -> 0
          [] ratio \in 2..4 -> 1
          [] ratio \in 5..10 -> 2
          [] ratio \in 11..22 -> 3
          [] ratio \in 23..46 -> 4
          [] ratio \in 47..94 -> 5
          [] ratio \in 95..190 -> 6
          [] OTHER -> 7

\* let br = match rcc.clocks.apb_clk / speed { .. }: the baud-rate code, or
\* -1 where the match arm is unreachable!() and panics
br(clock, speed) ==
    LET ratio == clock \div speed
    IN  CASE ratio = 0 -> -1
          [] ratio \in 1..2 -> 0
          [] ratio \in 3..5 -> 1
          [] ratio \in 6..11 -> 2
          [] ratio \in 12..23 -> 3
          [] ratio \in 24..47 -> 4
          [] ratio \in 48..95 -> 5
          [] ratio \in 96..191 -> 6
          [] OTHER -> 7

\* spi.cr2().write(|w| w.ssoe().clear_bit()): a write starts from the reset
\* value of the register
Cr2Ssoe == [Cr2Reset EXCEPT !.ssoe = FALSE]

\* spi.cr2().write(|w| w.frxth().set_bit().ds().bits(0b111).ssoe().clear_bit())
Cr2New == [Cr2Reset EXCEPT !.frxth = TRUE, !.ds = 7, !.ssoe = FALSE]

\* the same write leaving the peripheral disabled
Cr1New_disabled(mode, code) ==
    [Cr1Reset EXCEPT !.cpha = (mode.phase = "CaptureOnSecondTransition"),
                     !.cpol = (mode.polarity = "IdleHigh"),
                     !.mstr = TRUE,
                     !.br = code,
                     !.ssm = TRUE,
                     !.ssi = TRUE]

\* spi.cr1().write(|w| { .. })
Cr1New(mode, code) ==
    [Cr1Reset EXCEPT !.cpha = (mode.phase = "CaptureOnSecondTransition"),
                     !.cpol = (mode.polarity = "IdleHigh"),
                     !.mstr = TRUE,
                     !.br = code,
                     !.lsbfirst = FALSE,
                     !.ssm = TRUE,
                     !.ssi = TRUE,
                     !.rxonly = FALSE,
                     !.crcl = FALSE,
                     !.bidimode = FALSE,
                     !.spe = TRUE]

VARIABLES
    sr,        \* SPI_SR as the last poll of the running (or last) call read it
    cs,        \* level of the chip-select line: "high" or "low"
    dev,       \* TRUE once the bus was moved into an SpiDevice (exclusive)
    pc,        \* where the driver is: "idle" when the caller has control
    ops,       \* the operations of the running call, with their buffers
    ops0,      \* the same operations as the caller passed them
    k,         \* position of the running operation in ops
    i,         \* position of the running byte in the running primitive
    log,       \* events of the running (or last) call
    result,    \* "none" while a call runs, else "Ok" or the Error returned
    inflight,  \* data-register writes minus reads since construction
    lost,      \* primitives that failed between a write and its read
    cr1,       \* SPI_CR1, the fields the driver programs
    cr2,       \* SPI_CR2, the fields the driver programs
    args       \* what SpiBus::new was called with: apb_clk, speed, mode

vars == <<sr, cs, dev, pc, ops, ops0, k, i, log, result, inflight, lost,
          cr1, cr2, args>>

\* the configuration: only SpiBus::new and the three configuration
\* operations write it
config == <<cr1, cr2, args>>

\* a send phase that takes a CRC error for a matter of the receive phase and
\* sends when the transmit buffer is empty
send_byte_crc_ignored(s) ==
    IF s.ovr THEN "Overrun"
    ELSE IF s.modf THEN "ModeFault"
    ELSE IF s.txe THEN "Ok"
    ELSE "WouldBlock"

\* a send phase that reports the faults but never sees the transmit buffer
\* empty
send_byte_never_ready(s) ==
    IF s.ovr THEN "Overrun"
    ELSE IF s.modf THEN "ModeFault"
    ELSE IF s.crcerr THEN "Crc"
    ELSE "WouldBlock"

\* ------------------------------------------------- byte phases (pure part)
\* send_byte with the mode-fault flag tested before the overrun flag
send_byte_modf_first(s) ==
    IF s.modf THEN "ModeFault"
    ELSE IF s.ovr THEN "Overrun"
    ELSE IF s.crcerr THEN "Crc"
    ELSE IF s.txe THEN "Ok"
    ELSE "WouldBlock"

\* SpiBus::send_byte: what one poll of the send phase decides from SPI_SR
send_byte(s) ==
    IF s.ovr THEN "Overrun"
    ELSE IF s.modf THEN "ModeFault"
    ELSE IF s.crcerr THEN "Crc"
    ELSE IF s.txe THEN "Ok"
    ELSE "WouldBlock"

\* receive_byte with the receive-ready flag tested before the fault flags
receive_byte_ready_first(s) ==
    IF s.rxne THEN "Ok"
    ELSE IF s.ovr THEN "Overrun"
    ELSE IF s.modf THEN "ModeFault"
    ELSE IF s.crcerr THEN "Crc"
    ELSE "WouldBlock"

\* SpiBus::receive_byte: what one poll of the receive phase decides
receive_byte(s) ==
    IF s.ovr THEN "Overrun"
    ELSE IF s.modf THEN "ModeFault"
    ELSE IF s.crcerr THEN "Crc"
    ELSE IF s.rxne THEN "Ok"
    ELSE "WouldBlock"


\* ------------------------------------------- composite primitives, per byte
\* What a primitive does at position i of its loop: more = the iterator
\* yields an element, byte = the byte handed to send_byte, keep = the
\* received byte is stored at position i of the &mut slice.
Exhausted == [more |-> FALSE, byte |-> 0, keep |-> FALSE]

\* read that sends the contents of the buffer instead of the filler
read_sends_buffer(op, n) ==
    IF n <= Len(op.rd) THEN [more |-> TRUE, byte |-> op.rd[n], keep |-> TRUE]
    ELSE Exhausted

\* SpiBus::read
read(op, n) ==
    IF n <= Len(op.rd) THEN [more |-> TRUE, byte |-> 0, keep |-> TRUE]
    ELSE Exhausted

\* write that stops one byte early
write_stops_early(op, n) ==
    IF n < Len(op.wr) THEN [more |-> TRUE, byte |-> op.wr[n], keep |-> FALSE]
    ELSE Exhausted

\* SpiBus::write
write(op, n) ==
    IF n <= Len(op.wr) THEN [more |-> TRUE, byte |-> op.wr[n], keep |-> FALSE]
    ELSE Exhausted

\* transfer that stops when the shorter buffer is exhausted
transfer_zip(op, n) ==
    IF n <= Len(op.rd) /\ n <= Len(op.wr)
    THEN [more |-> TRUE, byte |-> op.wr[n], keep |-> TRUE]
    ELSE Exhausted

\* SpiBus::transfer: match (iter_r.next(), iter_w.next())
transfer(op, n) ==
    LET r == n <= Len(op.rd)
        w == n <= Len(op.wr)
    IN  IF r /\ w THEN [more |-> TRUE, byte |-> op.wr[n], keep |-> TRUE]
        ELSE IF r THEN [more |-> TRUE, byte |-> 0, keep |-> TRUE]
        ELSE IF w THEN [more |-> TRUE, byte |-> op.wr[n], keep |-> FALSE]
        ELSE Exhausted

\* transfer_in_place that sends the element before the one it overwrites
transfer_in_place_stale(op, n) ==
    IF n <= Len(op.rd)
    THEN [more |-> TRUE, byte |-> op.rd[IF n > 1 THEN n - 1 ELSE n], keep |-> TRUE]
    ELSE Exhausted

\* SpiBus::transfer_in_place
transfer_in_place(op, n) ==
    IF n <= Len(op.rd) THEN [more |-> TRUE, byte |-> op.rd[n], keep |-> TRUE]
    ELSE Exhausted

\* the primitive an operation is dispatched to.  Operation::Transfer(a, b)
\* goes to self.bus.transfer(a, b): a is the &mut slice (rd), b the slice
\* that is sent (wr), whatever the match arm calls them.
Primitive(op, n) ==
    CASE op.kind = "Read" -> read(op, n)
      [] op.kind = "Write" -> write(op, n)
      [] op.kind = "Transfer" -> transfer(op, n)
      [] op.kind = "TransferInPlace" -> transfer_in_place(op, n)
      [] OTHER -> Exhausted

\* ------------------------------------------------------------ control flow
\* a primitive returned Ok(()): a direct call hands control back to the
\* caller, inside a transaction the for loop goes to the next operation
PrimitiveOk ==
    IF dev
    THEN /\ pc' = "dispatch"
         /\ k' = k + 1
         /\ i' = 0
         /\ result' = result
    ELSE /\ pc' = "done"
         /\ k' = k
         /\ i' = 0
         /\ result' = "Ok"

\* an error path that deasserts chip-select before it returns
Propagate_deassert(e) ==
    /\ pc' = "done"
    /\ result' = e
    /\ lost' = IF pc = "recv" THEN lost + 1 ELSE lost
    /\ cs' = "high"
    /\ log' = Append(log, [e |-> "set_high", v |-> "ok"])
    /\ UNCHANGED <<dev, ops, ops0, k, i, inflight>>

\* the ? after block!(..) and after self.bus.xxx(..): the Error goes to the
\* caller at once, nothing else is done
Propagate(e) ==
    /\ pc' = "done"
    /\ result' = e
    /\ lost' = IF pc = "recv" THEN lost + 1 ELSE lost
    /\ UNCHANGED <<cs, dev, ops, ops0, k, i, log, inflight>>

\* self.spi.dr().write(|w| w.dr().set(byte.into()))
DrWrite(b) ==
    /\ log' = Append(log, Ev("dr_write", b))
    /\ inflight' = inflight + 1

\* a receive phase that advances without reading the data register
DrRead_skipped(b) ==
    /\ log' = log
    /\ inflight' = inflight

\* ptr::read_volatile(&self.spi.dr() as *const _ as *const u8)
DrRead(b) ==
    /\ log' = Append(log, Ev("dr_read", b))
    /\ inflight' = inflight - 1

\* a chip-select failure reported on the bus-fault channel
map_err_mode_fault == "ModeFault"

\* map_err(|_| Error::ChipSelectFault)
map_err == "ChipSelectFault"

\* ------------------------------------------------------------- byte phases
\* a send phase that goes on to the next byte without a receive phase when
\* the primitive has no use for the received byte
SendPoll_no_drain ==
    /\ pc = "send"
    /\ UNCHANGED config
    /\ \E s \in Flags :
        /\ sr' = s
        /\ LET o == send_byte(s)
               st == Primitive(ops[k], i)
           IN  CASE o = "Ok" ->
                        /\ DrWrite(st.byte)
                        /\ IF st.keep
                           THEN /\ pc' = "recv"
                                /\ UNCHANGED <<k, i, result>>
                           ELSE IF Primitive(ops[k], i + 1).more
                           THEN /\ pc' = "send"
                                /\ i' = i + 1
                                /\ UNCHANGED <<k, result>>
                           ELSE PrimitiveOk
                        /\ UNCHANGED <<cs, dev, ops, ops0, lost>>
                 [] o = "WouldBlock" ->
                        UNCHANGED <<cs, dev, pc, ops, ops0, k, i, log, result,
                                    inflight, lost>>
                 [] OTHER -> Propagate(o)

\* block!(self.send_byte(b)): one iteration of the polling loop
SendPoll ==
    /\ pc = "send"
    /\ UNCHANGED config
    /\ \E s \in Flags :
        /\ sr' = s
        /\ LET o == send_byte(s)
               b == Primitive(ops[k], i).byte
           IN  CASE o = "Ok" ->
                        /\ DrWrite(b)
                        /\ pc' = "recv"
                        /\ UNCHANGED <<cs, dev, ops, ops0, k, i, result, lost>>
                 [] o = "WouldBlock" ->
                        UNCHANGED <<cs, dev, pc, ops, ops0, k, i, log, result,
                                    inflight, lost>>
                 [] OTHER -> Propagate(o)

\* block!(self.receive_byte()): one iteration of the polling loop, and on
\* success the store and the step of the primitive's loop to the next byte
RecvPoll ==
    /\ pc = "recv"
    /\ UNCHANGED config
    /\ \E s \in Flags :
        /\ sr' = s
        /\ LET o == receive_byte(s)
               st == Primitive(ops[k], i)
           IN  CASE o = "Ok" ->
                        \E b \in Byte :
                            LET stored == IF st.keep
                                          THEN [ops EXCEPT ![k].rd[i] = b]
                                          ELSE ops
                            IN  /\ DrRead(b)
                                /\ ops' = stored
                                /\ IF Primitive(stored[k], i + 1).more
                                   THEN /\ pc' = "send"
                                        /\ i' = i + 1
                                        /\ UNCHANGED <<k, result>>
                                   ELSE PrimitiveOk
                                /\ UNCHANGED <<cs, dev, ops0, lost>>
                 [] o = "WouldBlock" ->
                        UNCHANGED <<cs, dev, pc, ops, ops0, k, i, log, result,
                                    inflight, lost>>
                 [] OTHER -> Propagate(o)

\* ------------------------------------------------- SpiDevice::transaction
\* self.cs.set_low().map_err(..)?
SetLow ==
    /\ pc = "set_low"
    /\ UNCHANGED config
    /\ \E ok \in BOOLEAN :
        IF ok
        THEN /\ cs' = "low"
             /\ log' = Append(log, Ev("set_low", "ok"))
             /\ pc' = "dispatch"
             /\ k' = 1
             /\ UNCHANGED <<sr, dev, ops, ops0, i, result, inflight, lost>>
        ELSE /\ cs' \in {cs, "low"}
             /\ log' = Append(log, Ev("set_low", "err"))
             /\ pc' = "done"
             /\ result' = map_err
             /\ UNCHANGED <<sr, dev, ops, ops0, k, i, inflight, lost>>

\* the dispatch with Operation::DelayNs skipped, the delay provider not called
Dispatch_no_delay ==
    /\ pc = "dispatch"
    /\ UNCHANGED config
    /\ IF k > Len(ops)
       THEN /\ pc' = "set_high"
            /\ UNCHANGED <<k, i, log>>
       ELSE IF ops[k].kind # "DelayNs" /\ Primitive(ops[k], 1).more
       THEN /\ pc' = "send"
            /\ i' = 1
            /\ UNCHANGED <<k, log>>
       ELSE /\ k' = k + 1
            /\ UNCHANGED <<pc, i, log>>
    /\ UNCHANGED <<sr, cs, dev, ops, ops0, result, inflight, lost>>

\* for op in operations { match op { .. } }: the head of the loop and the
\* dispatch of the next operation, up to its first poll
Dispatch ==
    /\ pc = "dispatch"
    /\ UNCHANGED config
    /\ IF k > Len(ops)
       THEN /\ pc' = "set_high"
            /\ UNCHANGED <<k, i, log>>
       ELSE IF ops[k].kind = "DelayNs"
       THEN /\ log' = Append(log, Ev("delay_ns", ops[k].ns))
            /\ k' = k + 1
            /\ UNCHANGED <<pc, i>>
       ELSE IF Primitive(ops[k], 1).more
       THEN /\ pc' = "send"
            /\ i' = 1
            /\ UNCHANGED <<k, log>>
       ELSE /\ k' = k + 1
            /\ UNCHANGED <<pc, i, log>>
    /\ UNCHANGED <<sr, cs, dev, ops, ops0, result, inflight, lost>>

\* a transaction that returns Ok(()) without deasserting chip-select
SetHigh_missing ==
    /\ pc = "set_high"
    /\ UNCHANGED config
    /\ pc' = "done"
    /\ result' = "Ok"
    /\ UNCHANGED <<sr, cs, dev, ops, ops0, k, i, log, inflight, lost>>

\* self.cs.set_high().map_err(..)?; Ok(())
SetHigh ==
    /\ pc = "set_high"
    /\ UNCHANGED config
    /\ \E ok \in BOOLEAN :
        IF ok
        THEN /\ cs' = "high"
             /\ log' = Append(log, Ev("set_high", "ok"))
             /\ result' = "Ok"
        ELSE /\ cs' \in {cs, "high"}
             /\ log' = Append(log, Ev("set_high", "err"))
             /\ result' = map_err
    /\ pc' = "done"
    /\ UNCHANGED <<sr, dev, ops, ops0, k, i, inflight, lost>>

\* ------------------------------------------------------------- the caller
CanCall == pc = "idle" /\ inflight < MaxInflight

\* a bus primitive called directly on the SpiBus, up to its first poll
CallPrimitive(op) ==
    /\ CanCall
    /\ UNCHANGED config
    /\ ~dev
    /\ ops' = <<op>>
    /\ ops0' = <<op>>
    /\ log' = <<>>
    /\ k' = 1
    /\ IF Primitive(op, 1).more
       THEN /\ pc' = "send"
            /\ i' = 1
            /\ result' = "none"
       ELSE /\ pc' = "done"
            /\ i' = 0
            /\ result' = "Ok"
    /\ UNCHANGED <<sr, cs, dev, inflight, lost>>

CallRead == \E op \in ReadOps(MaxLen) : CallPrimitive(op)
CallWrite == \E op \in WriteOps(MaxLen) : CallPrimitive(op)
CallTransfer == \E op \in TransferOps(MaxLen) : CallPrimitive(op)
CallTransferInPlace == \E op \in TransferInPlaceOps(MaxLen) : CallPrimitive(op)

\* SpiBus::flush
flush ==
    /\ CanCall
    /\ UNCHANGED config
    /\ ~dev
    /\ ops' = <<>>
    /\ ops0' = <<>>
    /\ log' = <<>>
    /\ k' = 0
    /\ i' = 0
    /\ result' = "Ok"
    /\ pc' = "done"
    /\ UNCHANGED <<sr, cs, dev, inflight, lost>>

\* SpiBus::exclusive: the bus moves into an SpiDevice
exclusive ==
    /\ pc = "idle"
    /\ UNCHANGED config
    /\ ~dev
    /\ dev' = TRUE
    /\ cs' = cs
    /\ ops' = <<>>
    /\ ops0' = <<>>
    /\ log' = <<>>
    /\ k' = 0
    /\ i' = 0
    /\ result' = "none"
    /\ UNCHANGED <<sr, pc, inflight, lost>>

\* the call has returned: the caller takes the result and its buffers, and
\* is free to make the next call
Return ==
    /\ pc = "done"
    /\ UNCHANGED config
    /\ pc' = "idle"
    /\ ops' = <<>>
    /\ ops0' = <<>>
    /\ log' = <<>>
    /\ k' = 0
    /\ i' = 0
    /\ result' = "none"
    /\ sr' = SrReset
    /\ UNCHANGED <<cs, dev, inflight, lost>>

\* SpiDevice::transaction is entered
CallTransaction ==
    /\ CanCall
    /\ UNCHANGED config
    /\ dev
    /\ \E l \in OpLists :
        /\ ops' = l
        /\ ops0' = l
    /\ log' = <<>>
    /\ k' = 0
    /\ i' = 0
    /\ result' = "none"
    /\ pc' = "set_low"
    /\ UNCHANGED <<sr, cs, dev, inflight, lost>>

\* ------------------------------------------- runtime configuration of the bus
\* values of nr_bits the model distinguishes: 0, the default frame and the
\* widest frame
NrBits == {0, 8, 16}

\* a configuration operation as the caller passed it: the argument is in ns
\* (a bool as 0 or 1)
ConfigCall(name, arg) == <<Op(name, <<>>, <<>>, arg)>>

\* the configuration operation is called on the SpiBus
ConfigCalled(name, arg) ==
    /\ pc = "idle"
    /\ ~dev
    /\ ops' = ConfigCall(name, arg)
    /\ ops0' = ConfigCall(name, arg)
    /\ log' = <<>>
    /\ k' = 0
    /\ i' = 0
    /\ UNCHANGED <<sr, cs, dev, inflight, lost, args>>

\* data_size programming CR2 with write instead of modify: the other fields
\* of the register fall back to their reset values
data_size_write ==
    \E nr_bits \in NrBits :
        /\ ConfigCalled("data_size", nr_bits)
        /\ \/ /\ cr2' = [Cr2Reset EXCEPT !.ds = ((nr_bits - 1) % 256) % 16]
              /\ result' = "Ok"
              /\ pc' = "done"
        /\ cr1' = cr1

\* SpiBus::data_size: cr2().modify(|_, w| w.ds().bits(nr_bits - 1)).
\* nr_bits - 1 is u8 arithmetic: with nr_bits = 0 it panics where overflow
\* checks are compiled in and wraps to 255 where they are not; the field
\* writer keeps the low four bits
data_size ==
    \E nr_bits \in NrBits :
        /\ ConfigCalled("data_size", nr_bits)
        /\ \/ /\ cr2' = [cr2 EXCEPT !.ds = ((nr_bits - 1) % 256) % 16]
              /\ result' = "Ok"
              /\ pc' = "done"
           \/ /\ nr_bits = 0
              /\ cr2' = cr2
              /\ result' = "overflow"
              /\ pc' = "panic"
        /\ cr1' = cr1

\* SpiBus::half_duplex_enable: cr1().modify(|_, w| w.bidimode().bit(enable))
half_duplex_enable ==
    \E enable \in BOOLEAN :
        /\ ConfigCalled("half_duplex_enable", IF enable THEN 1 ELSE 0)
        /\ cr1' = [cr1 EXCEPT !.bidimode = enable]
        /\ cr2' = cr2
        /\ result' = "Ok"
        /\ pc' = "done"

\* SpiBus::half_duplex_output_enable: cr1().modify(|_, w| w.bidioe().bit(enable))
half_duplex_output_enable ==
    \E enable \in BOOLEAN :
        /\ ConfigCalled("half_duplex_output_enable", IF enable THEN 1 ELSE 0)
        /\ cr1' = [cr1 EXCEPT !.bidioe = enable]
        /\ cr2' = cr2
        /\ result' = "Ok"
        /\ pc' = "done"

\* SpiDevice::transaction is entered with a list of at most one operation
CallShortTransaction ==
    /\ CanCall
    /\ UNCHANGED config
    /\ dev
    /\ \E l \in {x \in OpLists : Len(x) <= 1} :
        /\ ops' = l
        /\ ops0' = l
    /\ log' = <<>>
    /\ k' = 0
    /\ i' = 0
    /\ result' = "none"
    /\ pc' = "set_low"
    /\ UNCHANGED <<sr, cs, dev, inflight, lost>>

\* ------------------------------------------------------------ SpiBus::new
\* the statements of SpiBus::new with pins set up only after the peripheral
\* was enabled
new_body_pins_last == <<"enable", "reset", "ssoe", "br", "frame", "cr1", "pins">>

\* the statements of SpiBus::new in program order
new_body == <<"enable", "reset", "ssoe", "br", "frame", "pins", "cr1">>

\* SpiBus::new stands before statement st
NewAt(st) == pc = "new" /\ k <= Len(new_body) /\ new_body[k] = st

\* the statement is done: on to the next one, and after the last one
\* `SpiBus { spi, pins }` is returned
NewAdvance ==
    IF k = Len(new_body)
    THEN pc' = "done" /\ k' = 0 /\ result' = "Ok"
    ELSE pc' = pc /\ k' = k + 1 /\ result' = result

\* SPI::enable(rcc)
enable ==
    /\ NewAt("enable")
    /\ log' = Append(log, Ev("enable", 0))
    /\ NewAdvance
    /\ UNCHANGED <<sr, cs, dev, ops, ops0, i, inflight, lost, cr1, cr2, args>>

\* SPI::reset(rcc): the registers of the peripheral take their reset values
reset ==
    /\ NewAt("reset")
    /\ log' = Append(log, Ev("reset", 0))
    /\ cr1' = Cr1Reset
    /\ cr2' = Cr2Reset
    /\ NewAdvance
    /\ UNCHANGED <<sr, cs, dev, ops, ops0, i, inflight, lost, args>>

\* spi.cr2().write(|w| w.ssoe().clear_bit())
cr2_ssoe ==
    /\ NewAt("ssoe")
    /\ cr2' = Cr2Ssoe
    /\ log' = Append(log, Ev("cr2_write", Cr2Ssoe))
    /\ NewAdvance
    /\ UNCHANGED <<sr, cs, dev, ops, ops0, i, inflight, lost, cr1, args>>

\* let br = match rcc.clocks.apb_clk / speed { 0 => unreachable!(), .. }
match_br ==
    /\ NewAt("br")
    /\ IF br(args.clock, args.speed) < 0
       THEN pc' = "panic" /\ k' = k /\ result' = "unreachable"
       ELSE NewAdvance
    /\ UNCHANGED <<sr, cs, dev, ops, ops0, i, log, inflight, lost, cr1, cr2,
                   args>>

\* spi.cr2().write(|w| w.frxth().set_bit().ds().bits(0b111).ssoe().clear_bit())
cr2_frame ==
    /\ NewAt("frame")
    /\ cr2' = Cr2New
    /\ log' = Append(log, Ev("cr2_write", Cr2New))
    /\ NewAdvance
    /\ UNCHANGED <<sr, cs, dev, ops, ops0, i, inflight, lost, cr1, args>>

\* pins.setup()
setup ==
    /\ NewAt("pins")
    /\ log' = Append(log, Ev("setup", 0))
    /\ NewAdvance
    /\ UNCHANGED <<sr, cs, dev, ops, ops0, i, inflight, lost, cr1, cr2, args>>

\* spi.cr1().write(|w| { .. w.br().set(br); .. w.spe().set_bit() })
cr1_write ==
    /\ NewAt("cr1")
    /\ LET v == Cr1New(args.mode, br(args.clock, args.speed))
       IN  /\ cr1' = v
           /\ log' = Append(log, Ev("cr1_write", v))
    /\ NewAdvance
    /\ UNCHANGED <<sr, cs, dev, ops, ops0, i, inflight, lost, cr2, args>>

\* ----------------------------------------------------------- specification
Init ==
    /\ sr = SrReset
    /\ cs = "high"
    /\ dev = FALSE
    /\ pc = "idle"
    /\ ops = <<>>
    /\ ops0 = <<>>
    /\ k = 0
    /\ i = 0
    /\ log = <<>>
    /\ result = "none"
    /\ inflight = 0
    /\ lost = 0
    /\ args = [clock |-> 8, speed |-> 1, mode |-> MODE_0]
    /\ cr1 = Cr1New(args.mode, br(args.clock, args.speed))
    /\ cr2 = Cr2New

Next ==
    \/ CallRead
    \/ CallWrite
    \/ CallTransfer
    \/ CallTransferInPlace
    \/ flush
    \/ exclusive
    \/ CallTransaction
    \/ SetLow
    \/ Dispatch
    \/ SendPoll
    \/ RecvPoll
    \/ SetHigh
    \/ Return

Spec == Init /\ [][Next]_vars

\* the flag a byte phase waits for is set, or a fault flag is
Answered(phase, s) ==
    \/ ~NoFault(s)
    \/ phase = "send" /\ s.txe
    \/ phase = "recv" /\ s.rxne

\* The processor keeps executing the driver, and in each byte phase the
\* peripheral eventually shows the flag the phase waits for or a fault flag.
Fairness ==
    /\ WF_vars(SetLow)
    /\ WF_vars(Dispatch)
    /\ WF_vars(SetHigh)
    /\ WF_vars(SendPoll /\ Answered("send", sr'))
    /\ WF_vars(RecvPoll /\ Answered("recv", sr'))

\* one call from the constructed bus, or exclusive and one transaction
LiveNext ==
    \/ CallRead
    \/ CallWrite
    \/ CallTransfer
    \/ CallTransferInPlace
    \/ flush
    \/ exclusive
    \/ CallTransaction
    \/ SetLow
    \/ Dispatch
    \/ SendPoll
    \/ RecvPoll
    \/ SetHigh

LiveSpec == Init /\ [][LiveNext]_vars /\ Fairness

\* the bus was constructed with one of the four modes
CfgInit ==
    /\ sr = SrReset
    /\ cs = "high"
    /\ dev = FALSE
    /\ pc = "idle"
    /\ ops = <<>>
    /\ ops0 = <<>>
    /\ k = 0
    /\ i = 0
    /\ log = <<>>
    /\ result = "none"
    /\ inflight = 0
    /\ lost = 0
    /\ args \in {a \in Args : a.clock = 8 /\ a.speed = 1}
    /\ cr1 = Cr1New(args.mode, br(args.clock, args.speed))
    /\ cr2 = Cr2New

CfgNext ==
    \/ data_size
    \/ half_duplex_enable
    \/ half_duplex_output_enable
    \/ CallWrite
    \/ CallTransferInPlace
    \/ flush
    \/ exclusive
    \/ CallShortTransaction
    \/ SetLow
    \/ Dispatch
    \/ SendPoll
    \/ RecvPoll
    \/ SetHigh
    \/ Return

\* the configuration operations between bus primitives, and transactions
\* after them
CfgSpec == CfgInit /\ [][CfgNext]_vars

\* A full-duplex peripheral: each write of the data register clocks one
\* byte out and one byte in.  What a poll can show of it: a received byte
\* only while a written byte has not been read back, the overrun flag only
\* once a second byte has come in on top of an unread one (or since then),
\* and never a mode fault or a CRC error.
LoopFlags(s) ==
    /\ ~s.modf
    /\ ~s.crcerr
    /\ s.rxne => inflight >= 1
    /\ s.ovr => (inflight >= 2 \/ sr.ovr)

LoopSendPoll == SendPoll /\ LoopFlags(sr')
LoopRecvPoll == RecvPoll /\ LoopFlags(sr')

LoopNext ==
    \/ CallRead
    \/ CallWrite
    \/ CallTransfer
    \/ CallTransferInPlace
    \/ flush
    \/ exclusive
    \/ CallTransaction
    \/ SetLow
    \/ Dispatch
    \/ LoopSendPoll
    \/ LoopRecvPoll
    \/ SetHigh
    \/ Return

\* the driver against the full-duplex peripheral
LoopSpec == Init /\ [][LoopNext]_vars

\* the fault flags of a status value
Faults(s) == <<s.ovr, s.modf, s.crcerr>>

\* The hardware leaves raised fault flags as they are: once a poll has shown
\* a fault, every later poll shows the same fault flags.
StickyFlags(s) == ~NoFault(sr) => Faults(s) = Faults(sr)

StickySendPoll == SendPoll /\ StickyFlags(sr')
StickyRecvPoll == RecvPoll /\ StickyFlags(sr')

\* the call has returned; the status the last poll read stays on record if it
\* showed a fault
StickyReturn ==
    /\ pc = "done"
    /\ UNCHANGED config
    /\ pc' = "idle"
    /\ ops' = <<>>
    /\ ops0' = <<>>
    /\ log' = <<>>
    /\ k' = 0
    /\ i' = 0
    /\ result' = "none"
    /\ sr' = IF NoFault(sr) THEN SrReset ELSE sr
    /\ UNCHANGED <<cs, dev, inflight, lost>>

StickyNext ==
    \/ CallRead
    \/ CallWrite
    \/ CallTransfer
    \/ CallTransferInPlace
    \/ flush
    \/ exclusive
    \/ CallTransaction
    \/ SetLow
    \/ Dispatch
    \/ StickySendPoll
    \/ StickyRecvPoll
    \/ SetHigh
    \/ StickyReturn

\* the driver on a peripheral whose fault flags nobody clears
StickySpec == Init /\ [][StickyNext]_vars

\* SpiBus::new is called: any arguments, and a peripheral in its reset state
\* or as an earlier user left it
NewInit ==
    /\ sr = SrReset
    /\ cs = "high"
    /\ dev = FALSE
    /\ pc = "new"
    /\ ops = <<>>
    /\ ops0 = <<>>
    /\ k = 1
    /\ i = 0
    /\ log = <<>>
    /\ result = "none"
    /\ inflight = 0
    /\ lost = 0
    /\ args \in Args
    /\ \E used \in BOOLEAN :
        /\ cr1 = IF used THEN Cr1Used ELSE Cr1Reset
        /\ cr2 = IF used THEN Cr2Used ELSE Cr2Reset

NewNext ==
    \/ enable
    \/ reset
    \/ cr2_ssoe
    \/ match_br
    \/ cr2_frame
    \/ setup
    \/ cr1_write

\* the construction of the bus, statement by statement
NewSpec == NewInit /\ [][NewNext]_vars


\* ------------------------------------------------- vocabulary of the claims
Max(a, b) == IF a >= b THEN a ELSE b

IsDr(x) == x.e \in {"dr_write", "dr_read"}
IsCs(x) == x.e \in {"set_low", "set_high"}

\* the data-register accesses of the call, in order
DrLog == SelectSeq(log, IsDr)

Values(q) == [j \in 1..Len(q) |-> q[j].v]

\* the bytes written to / read from the data register by the call, in order
Sent == Values(SelectSeq(log, LAMBDA x : x.e = "dr_write"))
Received == Values(SelectSeq(log, LAMBDA x : x.e = "dr_read"))

\* write, read, write, read, ...
Alternates(q) ==
    \A j \in 1..Len(q) : q[j].e = IF j % 2 = 1 THEN "dr_write" ELSE "dr_read"

\* the error the flags of a status value stand for, in the documented order
FaultOf(s) ==
    IF s.ovr THEN "Overrun" ELSE IF s.modf THEN "ModeFault" ELSE "Crc"

\* number of send+receive cycles an operation is documented to take
Cycles(op) ==
    CASE op.kind = "Read" -> Len(op.rd)
      [] op.kind = "Write" -> Len(op.wr)
      [] op.kind = "Transfer" -> Max(Len(op.rd), Len(op.wr))
      [] op.kind = "TransferInPlace" -> Len(op.rd)
      [] OTHER -> 0

\* the byte an operation (as the caller passed it) is documented to send in
\* its j-th cycle
Outbound(op, j) ==
    CASE op.kind = "Write" -> op.wr[j]
      [] op.kind = "Transfer" -> IF j <= Len(op.wr) THEN op.wr[j] ELSE 0
      [] op.kind = "TransferInPlace" -> op.rd[j]
      [] OTHER -> 0

\* the events an operation is documented to cause (the value of a dr_read
\* is the peripheral's choice and is left open)
Script(op) ==
    IF op.kind = "DelayNs" THEN <<Ev("delay_ns", op.ns)>>
    ELSE [j \in 1..(2 * Cycles(op)) |->
            IF j % 2 = 1 THEN Ev("dr_write", Outbound(op, (j + 1) \div 2))
            ELSE Ev("dr_read", 0)]

RECURSIVE ListScript(_)
ListScript(l) == IF l = <<>> THEN <<>> ELSE Script(Head(l)) \o ListScript(Tail(l))

\* q is the first Len(q) events of script sc
Follows(q, sc) ==
    /\ Len(q) <= Len(sc)
    /\ \A j \in 1..Len(q) :
        /\ q[j].e = sc[j].e
        /\ q[j].e # "dr_read" => q[j].v = sc[j].v

Returned == pc = "done"
DirectCall(kind) == Returned /\ ~dev /\ Len(ops0) = 1 /\ ops0[1].kind = kind

Last(q) == q[Len(q)]

\* the events of the operations before position n of the list the caller passed
ScriptBefore(n) == ListScript(SubSeq(ops0, 1, n - 1))

\* ------------------------------------------------------------------ claims
\* C1: a transaction on which no bus primitive and no chip-select call fails
\* calls set_low exactly once, before any bus or delay activity, works
\* through the operations in list order, calls set_high exactly once, after
\* the last operation, never touches chip-select in between, and returns Ok.
C1_TransactionBrackets ==
    /\ (dev /\ Returned /\ result = "Ok") =>
        /\ Len(log) >= 2
        /\ log[1] = Ev("set_low", "ok")
        /\ Last(log) = Ev("set_high", "ok")
        /\ Len(log) - 2 = Len(ListScript(ops0))
        /\ Follows(SubSeq(log, 2, Len(log) - 1), ListScript(ops0))
        /\ cs = "high"
    /\ (dev /\ pc \in {"dispatch", "send", "recv", "set_high"}) =>
        /\ cs = "low"
        /\ log[1] = Ev("set_low", "ok")
        /\ Follows(Tail(log), ListScript(ops0))

\* [Write([1]), Read(1 byte)] has completed
C1_Witness ==
    /\ dev /\ Returned /\ result = "Ok"
    /\ Len(ops0) = 2
    /\ ops0[1].kind = "Write" /\ Len(ops0[1].wr) = 1
    /\ ops0[2].kind = "Read" /\ Len(ops0[2].rd) = 1
    /\ Len(log) = 6

\* C2: when a bus primitive fails at operation k of a transaction, the
\* transaction returns that bus Error at once, nothing of the operations
\* after k is executed, set_high is not called, and chip-select is still
\* asserted when the caller has control again.
C2_FaultLeavesSelected ==
    /\ (dev /\ ~NoFault(sr)) => (Returned /\ result = FaultOf(sr))
    /\ (dev /\ Returned /\ result \in BusError) =>
        /\ ~NoFault(sr)
        /\ cs = "low"
        /\ log[1] = Ev("set_low", "ok")
        /\ \A j \in 1..Len(log) : log[j].e # "set_high"
        /\ k \in 1..Len(ops0)
        /\ ops0[k].kind # "DelayNs"
        /\ Follows(Tail(log), ListScript(SubSeq(ops0, 1, k)))
        /\ Len(Tail(log)) >= Len(ScriptBefore(k))
        /\ Len(Tail(log)) < Len(ListScript(SubSeq(ops0, 1, k)))

\* the first of two operations failed in its receive phase, a delay follows
C2_Witness ==
    /\ dev /\ Returned /\ result = "Overrun"
    /\ Len(ops0) = 2 /\ k = 1
    /\ ops0[2].kind = "DelayNs"
    /\ Len(log) = 2
    /\ cs = "low"

\* C3: a failure of the chip-select line is reported as ChipSelectFault and
\* as nothing else: a failing set_low returns it before any bus or delay
\* activity, a failing set_high returns it after all operations succeeded,
\* and a bus fault is never reported as ChipSelectFault.
C3_ChipSelectFault ==
    Returned =>
        /\ (result = "ChipSelectFault") <=>
                (log # <<>> /\ IsCs(Last(log)) /\ Last(log).v = "err")
        /\ (log # <<>> /\ log[1] = Ev("set_low", "err")) => Len(log) = 1
        /\ (log # <<>> /\ Last(log) = Ev("set_high", "err")) =>
                /\ log[1] = Ev("set_low", "ok")
                /\ Len(log) - 2 = Len(ListScript(ops0))
                /\ Follows(SubSeq(log, 2, Len(log) - 1), ListScript(ops0))
        /\ ~NoFault(sr) => result \in BusError
        /\ \A j \in 1..Len(log) :
                (IsCs(log[j]) /\ log[j].v = "err") => j = Len(log)

\* set_high failed after a one-byte operation
C3_Witness ==
    /\ Returned /\ result = "ChipSelectFault"
    /\ Len(log) = 4
    /\ Last(log) = Ev("set_high", "err")

\* what a poll that found a fault does: the primitive ends with that Error
\* and the data register is not touched
PollFails(e) ==
    /\ pc' = "done"
    /\ result' = e
    /\ log' = log
    /\ ops' = ops

\* what a poll that found nothing does: the same poll is made again
PollRepeats ==
    /\ pc' = pc
    /\ k' = k
    /\ i' = i
    /\ result' = result
    /\ log' = log
    /\ ops' = ops

\* C4: every poll of the send phase and of the receive phase decides by the
\* flags in this order: overrun -> Overrun, else mode fault -> ModeFault,
\* else CRC error -> Crc, else the ready flag of the phase (transmit-ready,
\* receive-ready) -> exactly one data-register access (the write of the
\* byte, the read of one byte) and advance, else would-block: the poll is
\* repeated with no data-register access and no error.
C4_PollPriority ==
    [][/\ pc = "send" =>
            IF sr'.ovr THEN PollFails("Overrun")
            ELSE IF sr'.modf THEN PollFails("ModeFault")
            ELSE IF sr'.crcerr THEN PollFails("Crc")
            ELSE IF sr'.txe
            THEN /\ log' = Append(log, Ev("dr_write", Outbound(ops0[k], i)))
                 /\ pc' = "recv"
                 /\ result' = "none"
                 /\ ops' = ops
            ELSE PollRepeats
       /\ pc = "recv" =>
            IF sr'.ovr THEN PollFails("Overrun")
            ELSE IF sr'.modf THEN PollFails("ModeFault")
            ELSE IF sr'.crcerr THEN PollFails("Crc")
            ELSE IF sr'.rxne
            THEN /\ \E b \in Byte : log' = Append(log, Ev("dr_read", b))
                 /\ \/ pc' = "send" /\ k' = k /\ i' = i + 1
                    \/ pc' = "dispatch" /\ k' = k + 1
                    \/ pc' = "done" /\ result' = "Ok"
            ELSE PollRepeats
      ]_vars

\* a send poll that saw mode fault together with both ready flags
C4_Witness ==
    /\ Returned /\ result = "ModeFault"
    /\ ~sr.ovr /\ sr.modf /\ sr.crcerr /\ sr.txe /\ sr.rxne
    /\ log = <<>>
    /\ ~dev

\* the data-register accesses of the operations before position n
DrBefore(n) == Len(SelectSeq(ScriptBefore(n), IsDr))

\* C5: when a poll of read, write, transfer or transfer_in_place finds the
\* overrun, mode-fault or CRC-error flag during a phase of byte i (whatever
\* the ready flags show), the primitive fails with the corresponding Error,
\* accesses the data register no more, and has not advanced the buffer
\* position for byte i: element i and all later elements of the caller's
\* buffer hold what they held before the call.
C5_FaultKeepsBuffer ==
    ~NoFault(sr) =>
        /\ Returned
        /\ result = FaultOf(sr)
        /\ k \in 1..Len(ops)
        /\ i \in 1..Cycles(ops0[k])
        /\ \A j \in i..Len(ops[k].rd) : ops[k].rd[j] = ops0[k].rd[j]
        /\ ops[k].wr = ops0[k].wr
        /\ \A m \in (k + 1)..Len(ops) : ops[m] = ops0[m]
        /\ Len(DrLog) - DrBefore(k) \in {2 * (i - 1), 2 * (i - 1) + 1}
        /\ Alternates(DrLog)

\* read of two bytes: the first was stored, the receive phase of the second
\* found the CRC-error flag together with the receive-ready flag
C5_Witness ==
    /\ DirectCall("Read") /\ result = "Crc"
    /\ sr.crcerr /\ sr.rxne
    /\ Len(ops0[1].rd) = 2 /\ i = 2
    /\ Len(DrLog) = 3
    /\ ops[1].rd[1] # ops0[1].rd[1]
    /\ ops[1].rd[2] = ops0[1].rd[2]

\* C6 as claimed: since construction the data-register writes and reads
\* alternate, starting with a write, over any sequence of primitives:
\* writes minus reads is always 0 or 1.
C6_NeverPipelined == inflight \in {0, 1}

\* C6 as amended: within every call the data-register writes and reads
\* alternate, starting with a write, and since construction writes minus
\* reads exceeds 0 or 1 only by the number of primitives that failed in a
\* receive phase, each of which left the byte it had written unread.
C6_AlternatesPerCall ==
    /\ Alternates(DrLog)
    /\ inflight - lost \in {0, 1}
    /\ inflight - lost = IF result \in BusError THEN 0 ELSE Len(DrLog) % 2

\* byte 1 was read back before byte 2 was written
C6_Witness ==
    /\ pc = "recv" /\ i = 2
    /\ Len(DrLog) = 3
    /\ lost = 0 /\ inflight = 1

\* C7: for all lengths Lr of the read buffer and Lw of the write buffer, a
\* fault-free transfer sends exactly max(Lr, Lw) bytes: the first Lw are the
\* write buffer in order, every later one is 0x00; the first Lr received
\* bytes are stored in the read buffer in order, every later one is dropped.
C7_TransferLengths ==
    (DirectCall("Transfer") /\ result = "Ok") =>
        LET lr == Len(ops0[1].rd)
            lw == Len(ops0[1].wr)
        IN  /\ Len(Sent) = Max(lr, lw)
            /\ Len(Received) = Max(lr, lw)
            /\ Alternates(DrLog)
            /\ \A j \in 1..Len(Sent) :
                    Sent[j] = IF j <= lw THEN ops0[1].wr[j] ELSE 0
            /\ Len(ops[1].rd) = lr
            /\ \A j \in 1..lr : ops[1].rd[j] = Received[j]
            /\ ops[1].wr = ops0[1].wr

\* one byte to write, two to read: the second sent byte is the filler
C7_Witness ==
    /\ DirectCall("Transfer") /\ result = "Ok"
    /\ ops0[1].wr = <<1>>
    /\ ops0[1].rd = <<0, 0>>
    /\ Sent = <<1, 0>>
    /\ ops[1].rd = <<1, 1>>

\* C8: a fault-free write(B) with B of length N makes exactly N send+receive
\* cycles, sends B[1..N] in order and drops all N received bytes: B is
\* unchanged and no received byte is stored.
C8_WriteCycles ==
    (DirectCall("Write") /\ result = "Ok") =>
        /\ Len(DrLog) = 2 * Len(ops0[1].wr)
        /\ Alternates(DrLog)
        /\ Sent = ops0[1].wr
        /\ Len(Received) = Len(ops0[1].wr)
        /\ ops = ops0

\* two bytes written, the peripheral answered with something else
C8_Witness ==
    /\ DirectCall("Write") /\ result = "Ok"
    /\ ops0[1].wr = <<1, 0>>
    /\ Received = <<0, 1>>

\* C9: a fault-free transfer_in_place(B) sends the original B[i] for each i
\* in order and leaves in B[i] the byte the peripheral returned for that
\* send; the byte sent at position i is never one an earlier receive stored.
C9_InPlace ==
    /\ (DirectCall("TransferInPlace") /\ result = "Ok") =>
            /\ Sent = ops0[1].rd
            /\ ops[1].rd = Received
            /\ Alternates(DrLog)
    /\ (~dev /\ pc = "recv" /\ ops0[1].kind = "TransferInPlace") =>
            /\ Last(log) = Ev("dr_write", ops0[1].rd[i])
            /\ \A j \in 1..(i - 1) : ops[1].rd[j] = Received[j]

\* both bytes were overwritten by 0, both were sent as 1
C9_Witness ==
    /\ DirectCall("TransferInPlace") /\ result = "Ok"
    /\ ops0[1].rd = <<1, 1>>
    /\ ops[1].rd = <<0, 0>>
    /\ Sent = <<1, 1>>

\* C10: a fault-free read of a buffer of length N sends exactly N filler
\* bytes 0x00 and stores the i-th received byte at position i, for all i.
C10_ReadFiller ==
    (DirectCall("Read") /\ result = "Ok") =>
        /\ Sent = [j \in 1..Len(ops0[1].rd) |-> 0]
        /\ ops[1].rd = Received
        /\ Len(ops[1].rd) = Len(ops0[1].rd)
        /\ Alternates(DrLog)

\* a buffer holding <<1, 1>> received <<0, 1>>
C10_Witness ==
    /\ DirectCall("Read") /\ result = "Ok"
    /\ ops0[1].rd = <<1, 1>>
    /\ ops[1].rd = <<0, 1>>
    /\ Sent = <<0, 0>>

\* --------------------------------------------- vocabulary of construction
\* apb_clk / speed as SpiBus::new was called
Ratio == args.clock \div args.speed

\* the lowest ratio of each band of the divisor table, codes 0 to 7
BandStart == <<1, 3, 6, 12, 24, 48, 96, 192>>

\* the code of the band a ratio >= 1 lies in
BandCode(r) == Cardinality({j \in 1..Len(BandStart) : BandStart[j] <= r}) - 1

Constructed == pc = "done" /\ result = "Ok"
Panicked == pc = "panic"

\* positions in the log of the events named e
At(e) == {j \in 1..Len(log) : log[j].e = e}
RegWrites == At("cr1_write") \cup At("cr2_write")

\* ---------------------------------------------------------------------- C11
\* C11: the divisor code SpiBus::new programs is the code of the band the
\* ratio apb_clk / speed lies in ([1,2] -> 0, [3,5] -> 1, [6,11] -> 2,
\* [12,23] -> 3, [24,47] -> 4, [48,95] -> 5, [96,191] -> 6, >= 192 -> 7), and
\* with ratio 0 construction panics at the match: it never completes, no code
\* reaches CR1 and CR1 is never written.
C11_DivisorBands ==
    /\ Constructed => Ratio >= 1 /\ cr1.br = BandCode(Ratio)
    /\ \A j \in At("cr1_write") : Ratio >= 1 /\ log[j].v.br = BandCode(Ratio)
    /\ Panicked => Ratio = 0
    /\ Ratio = 0 => /\ pc \in {"new", "panic"}
                     /\ new_body[k] \in {"enable", "reset", "ssoe", "br"}
    /\ Panicked => At("cr1_write") = {} /\ cr1 = Cr1Reset /\ result = "unreachable"

\* construction completed with a ratio on the last edge of the table
C11_Witness == Constructed /\ Ratio = 192 /\ cr1.br = 7

\* ---------------------------------------------------------------------- C12
\* the durations the delay provider was called with, in order
Delays == Values(SelectSeq(log, LAMBDA x : x.e = "delay_ns"))

\* the durations of the DelayNs operations of a list, in order
RECURSIVE DelaysOf(_)
DelaysOf(l) ==
    IF l = <<>> THEN <<>>
    ELSE (IF Head(l).kind = "DelayNs" THEN <<Head(l).ns>> ELSE <<>>)
            \o DelaysOf(Tail(l))

\* the operations of the list that were completed or skipped over so far
OpsDone == SubSeq(ops0, 1, Max(k, 1) - 1)

\* C12: in a transaction the delay provider is called exactly once for each
\* DelayNs operation the loop has passed, with that operation's duration, as
\* the event right after the events of the operations before it and before
\* any event of the operations after it; it is called for nothing else, and
\* a bus primitive called directly never calls it.
C12_DelayPerOperation ==
    /\ ~dev => Delays = <<>>
    /\ dev => Delays = DelaysOf(OpsDone)
    /\ (dev /\ Returned /\ result = "Ok") => Delays = DelaysOf(ops0)
    /\ dev => \A j \in 1..Len(OpsDone) :
                ops0[j].kind = "DelayNs" =>
                    LET p == Len(ScriptBefore(j)) + 2
                    IN  /\ p <= Len(log)
                        /\ log[p].e = "delay_ns"
                        /\ log[p].v = ops0[j].ns

\* [Write([1]), DelayNs(100)] has completed: the delay came after the
\* write's receive and before set_high
C12_Witness ==
    /\ dev /\ Returned /\ result = "Ok"
    /\ Len(ops0) = 2
    /\ ops0[1].kind = "Write" /\ Len(ops0[1].wr) = 1
    /\ ops0[2] = Op("DelayNs", <<>>, <<>>, 100)
    /\ Len(log) = 5
    /\ log[4].e = "delay_ns"
    /\ log[5].e = "set_high"

\* ---------------------------------------------------------------------- C13
\* a call is running
Running == pc \in {"set_low", "dispatch", "send", "recv", "set_high"}

\* one step of the driver seen from a byte phase: the phase ends exactly when
\* the poll is answered
PhaseStep ==
    pc \in {"send", "recv"} =>
        IF Answered(pc, sr')
        THEN pc' # pc \/ i' # i \/ k' # k
        ELSE pc' = pc /\ i' = i /\ k' = k /\ result' = "none" /\ log' = log

\* C13: a byte phase ends only on a poll that shows the flag it waits for or
\* a fault flag, and a poll that shows neither leaves the primitive in the
\* same phase of the same byte with no result (so it polls for ever while
\* neither is set); if every phase is eventually answered, every running
\* primitive and every running transaction eventually returns.
C13_ReturnsWhenAnswered ==
    /\ [][PhaseStep]_vars
    /\ (Running ~> Returned)

\* a transaction of a transfer and an in-place transfer has returned Ok
C13_Witness ==
    /\ dev /\ Returned /\ result = "Ok"
    /\ Len(ops0) = 2
    /\ ops0[1].kind = "Transfer" /\ Len(ops0[1].rd) = 1
    /\ ops0[2].kind = "TransferInPlace" /\ Len(ops0[2].rd) = 1

\* ---------------------------------------------------------------------- C14
\* the register write at position w of the log sets the peripheral-enable bit
SetsSpe(w) == log[w].e = "cr1_write" /\ log[w].v.spe

\* the register write at position w programs frame size and threshold
SetsFrame(w) == log[w].e = "cr2_write" /\ log[w].v.frxth /\ log[w].v.ds = 7

\* C14: in SpiBus::new, enable and then reset are each called exactly once and
\* before the first write of a peripheral register; the pins are set up
\* after the write of frame size and threshold to CR2 and before the write of
\* CR1; the enable bit is set only by the last register write, which comes
\* after the pin setup and carries mode, master, divisor and
\* slave-management bits.
C14_ConstructionOrder ==
    /\ Cardinality(At("enable")) <= 1
    /\ Cardinality(At("reset")) <= 1
    /\ Cardinality(At("setup")) <= 1
    /\ \A r \in At("reset") : \E e \in At("enable") : e < r
    /\ \A w \in RegWrites : \E r \in At("reset") : r < w
    /\ \A p \in At("setup") :
        /\ \E w \in RegWrites : w < p /\ SetsFrame(w)
        /\ \A c \in At("cr1_write") : p < c
    /\ \A c \in At("cr1_write") : At("setup") # {}
    /\ \A w \in RegWrites : SetsSpe(w) => \A x \in RegWrites : x <= w
    /\ (At("reset") # {} /\ cr1.spe) => At("cr1_write") # {}
    /\ Constructed =>
        /\ Cardinality(At("enable")) = 1
        /\ Cardinality(At("reset")) = 1
        /\ Cardinality(At("setup")) = 1
        /\ log[Len(log)].e = "cr1_write"
        /\ SetsSpe(Len(log))
        /\ log[Len(log)].v = Cr1New(args.mode, BandCode(Ratio))

\* construction has completed: the pins were set up just before the last
\* register write
C14_Witness ==
    /\ Constructed
    /\ Len(log) = 6
    /\ log[5].e = "setup"
    /\ log[6].e = "cr1_write"

\* ---------------------------------------------------------------------- C15
\* C15: when SpiBus::new has returned, for any mode and any ratio >= 1: CPHA
\* is set exactly for capture on the second transition, CPOL exactly for
\* idle high, MSTR is set, BR holds the code of the ratio, LSBFIRST is clear,
\* SSM and SSI are set, RXONLY and BIDIMODE are clear, SPE is set, SSOE is
\* clear, DS is 0b111 (8 bits) and FRXTH is set; with apb_clk = 8 and
\* speed = 1 of the same unit (8 MHz, 1 MHz) and MODE_0, BR is 0b010 and CPHA
\* and CPOL are 0.
C15_ConstructedConfiguration ==
    Constructed =>
        /\ cr1.cpha = (args.mode.phase = "CaptureOnSecondTransition")
        /\ cr1.cpol = (args.mode.polarity = "IdleHigh")
        /\ cr1.mstr
        /\ cr1.br = BandCode(Ratio)
        /\ ~cr1.lsbfirst
        /\ cr1.ssm /\ cr1.ssi
        /\ ~cr1.rxonly /\ ~cr1.bidimode
        /\ cr1.spe
        /\ ~cr2.ssoe
        /\ cr2.ds = 7
        /\ cr2.frxth
        /\ (args.clock = 8 /\ args.speed = 1 /\ args.mode = MODE_0) =>
                cr1.br = 2 /\ ~cr1.cpha /\ ~cr1.cpol

\* the bus was constructed with 8 MHz, 1 MHz and MODE_0
C15_Witness ==
    /\ Constructed
    /\ args = [clock |-> 8, speed |-> 1, mode |-> MODE_0]
    /\ cr1.br = 2
    /\ cr1.spe

\* ---------------------------------------------------------------------- C16
\* the bits of CR1 that SpiBus::new derives from its arguments or forces
Fixed(r) == <<r.cpha, r.cpol, r.mstr, r.br, r.ssm, r.ssi, r.spe>>

\* the step is the call of the configuration operation of that name
ConfigStep(name) ==
    pc = "idle" /\ pc' # "idle" /\ Len(ops0') = 1 /\ ops0'[1].kind = name

\* no access to the data register or the status register
NoBusAccess == inflight' = inflight /\ log' = <<>> /\ sr' = sr

\* what each step may change of the configuration
ConfigFrame ==
    /\ args' = args
    /\ ConfigStep("data_size") =>
        /\ cr1' = cr1
        /\ cr2' = [cr2 EXCEPT !.ds = cr2'.ds]
        /\ NoBusAccess
    /\ ConfigStep("half_duplex_enable") =>
        /\ cr1' = [cr1 EXCEPT !.bidimode = cr1'.bidimode]
        /\ cr2' = cr2
        /\ NoBusAccess
    /\ ConfigStep("half_duplex_output_enable") =>
        /\ cr1' = [cr1 EXCEPT !.bidioe = cr1'.bidioe]
        /\ cr2' = cr2
        /\ NoBusAccess
    /\ ~(\E c \in {"data_size", "half_duplex_enable",
                   "half_duplex_output_enable"} : ConfigStep(c)) =>
        cr1' = cr1 /\ cr2' = cr2

\* C16: after any sequence of data_size, half_duplex_enable,
\* half_duplex_output_enable, bus primitives and transactions the mode the
\* bus was constructed with is unchanged and the phase, polarity, master,
\* divisor, slave-management and enable bits of CR1 are those SpiBus::new
\* wrote; data_size changes nothing but the DS field of CR2,
\* half_duplex_enable nothing but BIDIMODE, half_duplex_output_enable nothing
\* but BIDIOE, none of the three touches the data register, and no other
\* step changes CR1 or CR2.
C16_ConfigurationFrame ==
    /\ [](Fixed(cr1) = Fixed(Cr1New(args.mode, BandCode(Ratio))))
    /\ [][ConfigFrame]_vars

\* a write has completed on a bus switched to 16-bit frames and to
\* half-duplex output
C16_Witness ==
    /\ DirectCall("Write") /\ result = "Ok" /\ Len(log) = 2
    /\ cr2.ds = 15 /\ cr2.frxth
    /\ cr1.bidimode /\ cr1.bidioe
    /\ Fixed(cr1) = Fixed(Cr1New(args.mode, 2))

\* ---------------------------------------------------------------------- C17
\* hal::spi::ErrorKind
ErrorKind == {"Overrun", "ModeFault", "FrameFormat", "ChipSelectFault", "Other"}

\* a classifier that reports a CRC error as an overrun
kind_crc_as_overrun(e) ==
    CASE e = "Overrun" -> "Overrun"
      [] e = "ModeFault" -> "ModeFault"
      [] e = "ChipSelectFault" -> "ChipSelectFault"
      [] e = "Crc" -> "Overrun"

\* impl hal::spi::Error for Error: fn kind(&self) -> ErrorKind
kind(e) ==
    CASE e = "Overrun" -> "Overrun"
      [] e = "ModeFault" -> "ModeFault"
      [] e = "ChipSelectFault" -> "ChipSelectFault"
      [] e = "Crc" -> "Other"

\* C17: whichever of the four Error values a call returns, kind classifies
\* it: Overrun, ModeFault and ChipSelectFault as the ErrorKind of the same
\* name, Crc as ErrorKind::Other.
C17_ErrorKind ==
    (Returned /\ result \in Error) =>
        /\ kind(result) \in ErrorKind
        /\ kind(result) = (IF result = "Crc" THEN "Other" ELSE result)

\* a transaction has failed with a CRC error, which the caller sees as Other
C17_Witness ==
    /\ dev /\ Returned /\ result = "Crc"
    /\ kind(result) = "Other"

\* ---------------------------------------------------------------------- C18
\* C18: against the full-duplex peripheral, starting with no fault flag set,
\* no primitive and no transaction returns Overrun and no poll ever shows
\* the overrun flag: the driver starts a send only when every byte it wrote
\* before has been read back, so never more than one byte is unread.
C18_NoOverrun ==
    /\ result # "Overrun"
    /\ ~sr.ovr
    /\ inflight \in {0, 1}
    /\ pc = "send" => inflight = 0

\* [Write([1]), Transfer] has completed against the full-duplex peripheral
C18_Witness ==
    /\ dev /\ Returned /\ result = "Ok"
    /\ Len(ops0) = 2
    /\ ops0[1].kind = "Write" /\ Len(ops0[1].wr) = 1
    /\ ops0[2].kind = "Transfer" /\ Len(ops0[2].rd) = 1
    /\ Len(DrLog) = 4

\* ---------------------------------------------------------------------- C19
\* a bus primitive called directly has returned Ok
PrimitiveSucceeded ==
    /\ Returned /\ ~dev /\ result = "Ok"
    /\ Len(ops0) = 1
    /\ ops0[1].kind \in {"Read", "Write", "Transfer", "TransferInPlace"}

\* flush has returned
Flushed == Returned /\ ~dev /\ ops0 = <<>>

\* C19: when read, write, transfer or transfer_in_place returns Ok, and when
\* a transaction is about to call set_high or has called it, the writes of
\* the data register since construction exceed the reads by exactly the
\* number of earlier primitives that failed between a write and its read:
\* with no such failure they are equal, no byte is in flight.  flush
\* returns Ok without an access to any register.
C19_NothingInFlight ==
    /\ PrimitiveSucceeded => inflight = lost
    /\ (dev /\ pc = "set_high") => inflight = lost
    /\ (dev /\ Returned /\ At("set_high") # {}) => inflight = lost
    /\ lost = 0 =>
        ((PrimitiveSucceeded \/ (dev /\ pc = "set_high")) => inflight = 0)
    /\ Flushed => result = "Ok" /\ log = <<>> /\ sr = SrReset

\* a transaction that exchanged two bytes is about to deassert chip-select on
\* a bus on which no primitive has failed
C19_Witness ==
    /\ dev /\ pc = "set_high"
    /\ lost = 0 /\ inflight = 0
    /\ Len(DrLog) = 4

\* ---------------------------------------------------------------------- C20
\* the prescaler the baud-rate code selects: the bus runs at apb_clk / 2^(code+1)
Divisor(code) == 2 ^ (code + 1)

\* C20 as stated: with 1 <= apb_clk / speed <= 191 the bus frequency
\* apb_clk / 2^(code+1) does not exceed speed (as exact numbers:
\* apb_clk <= speed * 2^(code+1)).
C20_NotAboveTarget ==
    (Constructed /\ Ratio \in 1..191) =>
        args.clock <= args.speed * Divisor(cr1.br)

\* C20, amended: with 1 <= apb_clk / speed <= 191 the bus frequency
\* apb_clk / 2^(code+1) stays below one and a half times speed (as exact
\* numbers: 2 * apb_clk < 3 * speed * 2^(code+1)); it may exceed speed
\* itself.
C20_BelowThreeHalves ==
    (Constructed /\ Ratio \in 1..191) =>
        2 * args.clock < 3 * args.speed * Divisor(cr1.br)

\* apb_clk = 16 and speed = 6: ratio 2, code 0, the bus runs at 8
C20_Witness ==
    /\ Constructed
    /\ args.clock = 16 /\ args.speed = 6
    /\ cr1.br = 0
    /\ args.clock > args.speed * Divisor(cr1.br)

\* ---------------------------------------------------------------------- C21
\* a step taken while the status on record shows a fault: nothing but a poll
\* reads the status register and nothing writes it, so the flags stay, and a
\* primitive that comes to its first poll fails there with the error of the
\* flags, the data register untouched
AfterFault ==
    ~NoFault(sr) =>
        /\ Faults(sr') = Faults(sr)
        /\ inflight' = inflight
        /\ SelectSeq(log', IsDr) = <<>> \/ log' = log
        /\ pc = "send" =>
            /\ i = 1
            /\ SelectSeq(log, IsDr) = <<>>
            /\ pc' = "done"
            /\ result' = FaultOf(sr)
            /\ log' = log

\* C21: once a primitive has failed with Overrun, ModeFault or Crc and the
\* fault flags stay as they are, no step of the driver changes them, and
\* every later primitive with at least one byte cycle, called on the bus or
\* by a new transaction, fails with the same Error on its first poll without
\* an access to the data register; no receive phase is ever entered.
C21_FaultPersists ==
    /\ [][AfterFault]_vars
    /\ [](~NoFault(sr) => pc # "recv")

\* a read has failed on its first poll with the overrun that an earlier
\* primitive had failed with in its receive phase
C21_Witness ==
    /\ DirectCall("Read") /\ Len(ops0[1].rd) = 2
    /\ result = "Overrun"
    /\ log = <<>>
    /\ lost = 1 /\ inflight = 1

=============================================================================
